---------------------------- MODULE Spec2Model ----------------------------
(***************************************************************************)
(* Model of the vGUPPI core ("02 scripts/vguppi.py"): the parameter        *)
(* schema (VGUPPIInputs, PARAM_META), the formula engine                   *)
(* (compute_intermediates, compute_vguppis) and the grid evaluator         *)
(* (compute_heatmap).                                                      *)
(*                                                                         *)
(* Numbers.  The code computes on Python floats.  The model computes on    *)
(* exact rationals <<n, d>> in lowest terms with d > 0.  What the model    *)
(* keeps of Python's float semantics is the part the properties below      *)
(* depend on: `a / b` with b = 0.0 raises ZeroDivisionError (it does not   *)
(* produce inf or nan), and an exception leaves the function at once.      *)
(* Rounding is not modelled.                                               *)
(***************************************************************************)
EXTENDS Integers, Sequences, FiniteSets, TLC

VARIABLES
    inputs,       \* the caller's ParameterSet (a VGUPPIInputs instance)
    param_meta,   \* the module-level dict PARAM_META
    pc,           \* "idle", or "heatmap" while compute_heatmap is in its loops
    call,         \* the frame of the call in progress or last made: its arguments
                  \* (inputs as it was when the call began) and its locals
    ret,          \* what the last completed call returned or raised
    session       \* the dashboard's st.session_state: widget key -> value

vars == <<inputs, param_meta, pc, call, ret, session>>

-----------------------------------------------------------------------------
(* Exact rational arithmetic standing for float arithmetic.                *)

Abs(n) == IF n < 0 THEN -n ELSE n

RECURSIVE GCD(_, _)
GCD(a, b) == IF b = 0 THEN a ELSE GCD(b, a % b)

\* The rational n/d (d # 0) in lowest terms with a positive denominator.
Q(n, d) ==
    LET g == GCD(Abs(n), Abs(d))
        s == IF d < 0 THEN -1 ELSE 1
    IN  <<s * (n \div g), s * (d \div g)>>

IsZero(a) == a[1] = 0

RNeg(a) == <<-a[1], a[2]>>

RAdd(a, b) ==
    LET g == GCD(a[2], b[2])
    IN  Q(a[1] * (b[2] \div g) + b[1] * (a[2] \div g), (a[2] \div g) * b[2])

RSub(a, b) == RAdd(a, RNeg(b))

RMul(a, b) ==
    LET g1 == GCD(Abs(a[1]), b[2])
        g2 == GCD(Abs(b[1]), a[2])
    IN  <<(a[1] \div g1) * (b[1] \div g2), (a[2] \div g2) * (b[2] \div g1)>>

\* a / b for b # 0; the callers test b = 0 first, as Python raises there.
RDiv(a, b) ==
    RMul(a, IF b[1] > 0 THEN <<b[2], b[1]>> ELSE <<-b[2], -b[1]>>)

Zero == Q(0, 1)
One == Q(1, 1)

-----------------------------------------------------------------------------
(* Outcome of a call: a returned value or a raised exception.              *)

Return(v) == [exc |-> "none", value |-> v]
Raise(e) == [exc |-> e, value |-> <<>>]
Raised(r) == r.exc # "none"

-----------------------------------------------------------------------------
(* Parameter schema.                                                       *)

\* fields(VGUPPIInputs), in declaration order.
get_param_fields ==
    <<"p_D", "p_R", "w_D", "w_R", "w_U", "m_D", "m_R", "m_U", "m_UD",
      "dr_RD", "dr_DU", "dr_UD", "ptr_U", "ptr_R", "e">>

Range(s) == {s[k] : k \in DOMAIN s}

FieldNames == Range(get_param_fields)

\* The class-level defaults of the dataclass, i.e. VGUPPIInputs().
VGUPPIInputs_defaults ==
    [p_D |-> Q(20, 1), p_R |-> Q(20, 1),
     w_D |-> Q(10, 1), w_R |-> Q(10, 1), w_U |-> Q(10, 1),
     m_D |-> Q(1, 2), m_R |-> Q(1, 2), m_U |-> Q(1, 2), m_UD |-> Q(1, 2),
     dr_RD |-> Q(2, 5), dr_DU |-> Q(1, 4), dr_UD |-> Q(2, 5),
     ptr_U |-> Q(1, 2), ptr_R |-> Q(1, 2),
     e |-> Q(1, 1)]

\* A variant in which the fields have no defaults: every one is required.
VGUPPIInputs_required(kw) ==
    IF DOMAIN kw # FieldNames
    THEN Raise("TypeError")
    ELSE Return([f \in FieldNames |-> kw[f]])

\* VGUPPIInputs(**kw): the generated __init__ takes the 15 fields as keyword
\* parameters, each with a default; any other keyword is a TypeError.
VGUPPIInputs(kw) ==
    IF ~(DOMAIN kw \subseteq FieldNames)
    THEN Raise("TypeError")
    ELSE Return([f \in FieldNames |->
                    IF f \in DOMAIN kw THEN kw[f] ELSE VGUPPIInputs_defaults[f]])

Meta(lo, hi, step, default, group) ==
    [min |-> lo, max |-> hi, step |-> step, default |-> default, group |-> group]

\* A variant of the table that has drifted from the dataclass: no entry for
\* "e", one for "eps".
PARAM_META_drifted ==
    [n \in (FieldNames \ {"e"}) \cup {"eps"} |->
        Meta(Q(0, 1), Q(1, 1), Q(1, 20), Q(1, 2), "Margins")]

\* The literal PARAM_META (the display label of each entry is left out).
PARAM_META ==
    [p_D   |-> Meta(Q(10, 1), Q(50, 1), Q(1, 1), Q(20, 1), "Prices"),
     p_R   |-> Meta(Q(10, 1), Q(50, 1), Q(1, 1), Q(20, 1), "Prices"),
     w_D   |-> Meta(Q(1, 1), Q(50, 1), Q(1, 1), Q(10, 1), "Prices"),
     w_R   |-> Meta(Q(1, 1), Q(50, 1), Q(1, 1), Q(10, 1), "Prices"),
     w_U   |-> Meta(Q(1, 1), Q(50, 1), Q(1, 1), Q(10, 1), "Prices"),
     m_D   |-> Meta(Q(0, 1), Q(1, 1), Q(1, 20), Q(1, 2), "Margins"),
     m_R   |-> Meta(Q(0, 1), Q(1, 1), Q(1, 20), Q(1, 2), "Margins"),
     m_U   |-> Meta(Q(0, 1), Q(1, 1), Q(1, 20), Q(1, 2), "Margins"),
     m_UD  |-> Meta(Q(0, 1), Q(1, 1), Q(1, 20), Q(1, 2), "Margins"),
     dr_RD |-> Meta(Q(0, 1), Q(1, 1), Q(1, 20), Q(2, 5), "Diversion Ratios"),
     dr_DU |-> Meta(Q(0, 1), Q(1, 1), Q(1, 20), Q(1, 4), "Diversion Ratios"),
     dr_UD |-> Meta(Q(0, 1), Q(1, 1), Q(1, 20), Q(2, 5), "Diversion Ratios"),
     ptr_U |-> Meta(Q(0, 1), Q(1, 1), Q(1, 20), Q(1, 2), "Pass-through"),
     ptr_R |-> Meta(Q(0, 1), Q(1, 1), Q(1, 20), Q(1, 2), "Pass-through"),
     e     |-> Meta(Q(1, 10), Q(5, 1), Q(1, 20), Q(1, 1), "Elasticity")]

\* list(PARAM_META.keys()), in insertion order.
PARAM_NAMES ==
    <<"p_D", "p_R", "w_D", "w_R", "w_U", "m_D", "m_R", "m_U", "m_UD",
      "dr_RD", "dr_DU", "dr_UD", "ptr_U", "ptr_R", "e">>

-----------------------------------------------------------------------------
(* Formula engine.                                                         *)

\* A variant with the price ratio of e_p inverted (p_R / w_R).
compute_intermediates_inverted(in) ==
    IF IsZero(in.w_R) THEN Raise("ZeroDivisionError")
    ELSE
    LET e_p == RDiv(RMul(in.ptr_R, in.p_R), in.w_R) IN
    IF IsZero(in.m_U) THEN Raise("ZeroDivisionError")
    ELSE
    LET e_sd == RSub(RDiv(One, in.m_U), RMul(in.e, e_p))
        e_sr == RSub(RDiv(One, in.m_U), RMul(in.e, e_p))
    IN  Return([e_p |-> e_p, e_sd |-> e_sd, e_sr |-> e_sr])

\* A variant with the sign of e * e_p flipped in e_sd and e_sr.
compute_intermediates_plus(in) ==
    IF IsZero(in.p_R) THEN Raise("ZeroDivisionError")
    ELSE
    LET e_p == RDiv(RMul(in.ptr_R, in.w_R), in.p_R) IN
    IF IsZero(in.m_U) THEN Raise("ZeroDivisionError")
    ELSE
    LET e_sd == RAdd(RDiv(One, in.m_U), RMul(in.e, e_p))
        e_sr == RAdd(RDiv(One, in.m_U), RMul(in.e, e_p))
    IN  Return([e_p |-> e_p, e_sd |-> e_sd, e_sr |-> e_sr])

compute_intermediates(in) ==
    IF IsZero(in.p_R) THEN Raise("ZeroDivisionError")
    ELSE
    LET e_p == RDiv(RMul(in.ptr_R, in.w_R), in.p_R) IN
    IF IsZero(in.m_U) THEN Raise("ZeroDivisionError")
    ELSE
    LET e_sd == RSub(RDiv(One, in.m_U), RMul(in.e, e_p))
        e_sr == RSub(RDiv(One, in.m_U), RMul(in.e, e_p))
    IN  Return([e_p |-> e_p, e_sd |-> e_sd, e_sr |-> e_sr])

VGUPPI_NAMES ==
    <<"vGUPPI_U", "vGUPPI_R", "vGUPPI_D1", "vGUPPI_D2", "vGUPPI_D3">>

\* A variant in which vGUPPI_D3 is taken from vGUPPI_D1, not from vGUPPI_D2.
compute_vguppis_d3_from_d1(in) ==
    LET inter == compute_intermediates(in) IN
    IF Raised(inter) THEN inter
    ELSE
    LET e_p  == inter.value.e_p
        e_sd == inter.value.e_sd
        e_sr == inter.value.e_sr
    IN
    IF IsZero(in.w_R) \/ IsZero(e_p) THEN Raise("ZeroDivisionError")
    ELSE
    LET num == RDiv(RMul(RMul(in.dr_RD, in.m_D), in.p_D), in.w_R)
        den == RAdd(One, RDiv(RMul(in.m_R, e_sr), e_p))
    IN
    IF IsZero(den) THEN Raise("ZeroDivisionError")
    ELSE
    LET vguppi_u == RDiv(num, den)
        vguppi_r ==
            RMul(RDiv(RMul(RMul(vguppi_u, in.ptr_U), in.w_R), in.p_R),
                 RSub(One, RMul(RMul(vguppi_u, in.ptr_U), e_sr)))
    IN
    IF IsZero(in.p_D) THEN Raise("ZeroDivisionError")
    ELSE
    LET vguppi_d1 == RDiv(RMul(RMul(in.dr_DU, in.m_U), in.w_U), in.p_D)
        vguppi_d2 == RSub(vguppi_d1, RDiv(RMul(in.m_UD, in.w_D), in.p_D))
        vguppi_d3 ==
            RSub(vguppi_d1,
                 RDiv(RMul(RMul(e_sd, RMul(in.m_UD, in.m_UD)), in.w_D), in.p_D))
    IN  Return([vGUPPI_U  |-> vguppi_u,
                vGUPPI_R  |-> vguppi_r,
                vGUPPI_D1 |-> vguppi_d1,
                vGUPPI_D2 |-> vguppi_d2,
                vGUPPI_D3 |-> vguppi_d3])

compute_vguppis(in) ==
    LET inter == compute_intermediates(in) IN
    IF Raised(inter) THEN inter
    ELSE
    LET e_p  == inter.value.e_p
        e_sd == inter.value.e_sd
        e_sr == inter.value.e_sr
    IN
    IF IsZero(in.w_R) \/ IsZero(e_p) THEN Raise("ZeroDivisionError")
    ELSE
    LET num == RDiv(RMul(RMul(in.dr_RD, in.m_D), in.p_D), in.w_R)
        den == RAdd(One, RDiv(RMul(in.m_R, e_sr), e_p))
    IN
    IF IsZero(den) THEN Raise("ZeroDivisionError")
    ELSE
    LET vguppi_u == RDiv(num, den)
        vguppi_r ==
            RMul(RDiv(RMul(RMul(vguppi_u, in.ptr_U), in.w_R), in.p_R),
                 RSub(One, RMul(RMul(vguppi_u, in.ptr_U), e_sr)))
    IN
    IF IsZero(in.p_D) THEN Raise("ZeroDivisionError")
    ELSE
    LET vguppi_d1 == RDiv(RMul(RMul(in.dr_DU, in.m_U), in.w_U), in.p_D)
        vguppi_d2 == RSub(vguppi_d1, RDiv(RMul(in.m_UD, in.w_D), in.p_D))
        vguppi_d3 ==
            RSub(vguppi_d2,
                 RDiv(RMul(RMul(e_sd, RMul(in.m_UD, in.m_UD)), in.w_D), in.p_D))
    IN  Return([vGUPPI_U  |-> vguppi_u,
                vGUPPI_R  |-> vguppi_r,
                vGUPPI_D1 |-> vguppi_d1,
                vGUPPI_D2 |-> vguppi_d2,
                vGUPPI_D3 |-> vguppi_d3])

-----------------------------------------------------------------------------
(* Grid evaluator.                                                         *)

\* A variant with the endpoint excluded (np.linspace(..., endpoint=False)).
linspace_open(start, stop, num) ==
    LET step == RDiv(RSub(stop, start), Q(num, 1))
    IN  [k \in 0 .. num - 1 |-> RAdd(RMul(Q(k, 1), step), start)]

\* np.linspace(start, stop, num) for num >= 1, endpoint included: the points
\* are start + k * step with step = (stop - start) / (num - 1), and the last
\* one is set to stop itself.  Indexed from 0 as the array is.
linspace(start, stop, num) ==
    LET div == num - 1
        step == IF div > 0 THEN RDiv(RSub(stop, start), Q(div, 1)) ELSE Zero
    IN  [k \in 0 .. num - 1 |->
            IF num > 1 /\ k = num - 1
            THEN stop
            ELSE RAdd(RMul(Q(k, 1), step), start)]

\* A variant that looks a name up with a fallback entry instead of raising.
axis_meta_get(meta, name) ==
    IF name \in DOMAIN meta
    THEN Return(meta[name])
    ELSE Return(Meta(Q(0, 1), Q(1, 1), Q(1, 20), Q(1, 2), ""))

\* PARAM_META[name]: a name that is no key raises KeyError.
axis_meta(meta, name) ==
    IF name \in DOMAIN meta THEN Return(meta[name]) ELSE Raise("KeyError")

\* A cell of np.empty(...) that has not been assigned yet.
Uninit == "uninit"

empty(rows, cols) == [r \in 0 .. rows - 1 |-> [c \in 0 .. cols - 1 |-> Uninit]]

\* {f.name: getattr(inputs, f.name) for f in fields(inputs)}
base_dict_of(in) == [f \in FieldNames |-> in[f]]

\* A variant that builds params from the two swept fields alone.
cell_params_swept_only(base_dict, x_param, y_param, x_val, y_val) ==
    [f \in {x_param, y_param} |-> IF f = y_param THEN y_val ELSE x_val]

\* params = base_dict.copy(); params[x_param] = x_val; params[y_param] = y_val
cell_params(base_dict, x_param, y_param, x_val, y_val) ==
    LET withx == [f \in DOMAIN base_dict \cup {x_param} |->
                     IF f = x_param THEN x_val ELSE base_dict[f]]
    IN  [f \in DOMAIN withx \cup {y_param} |->
            IF f = y_param THEN y_val ELSE withx[f]]

\* The body of the inner loop for cell (i, j): the value stored in
\* z_grid[i, j], or the exception that leaves compute_heatmap.
cell_result(base_dict, x_param, y_param, vguppi_key, x_val, y_val) ==
    LET made == VGUPPIInputs(cell_params(base_dict, x_param, y_param, x_val, y_val))
    IN  IF Raised(made) THEN made
        ELSE LET result == compute_vguppis(made.value)
             IN  IF Raised(result) THEN result
                 ELSE IF vguppi_key \notin DOMAIN result.value
                      THEN Raise("KeyError")
                      ELSE Return(result.value[vguppi_key])

-----------------------------------------------------------------------------
(* What the callers (the dashboard, the tests) pass in.                    *)

MaxResolution == 3

\* resolution >= 2 is compute_heatmap's precondition.
Resolutions == 2 .. MaxResolution

\* A name that is no field of the schema.
BadName == "p_X"

AxisNames == FieldNames \cup {BadName}

Metrics == Range(VGUPPI_NAMES)

\* The fields a formula divides by: p_R, w_R, p_D and m_U directly, and ptr_R
\* through e_p = ptr_R * w_R / p_R.
DenominatorFields == {"p_R", "w_R", "p_D", "m_U", "ptr_R"}

\* ParameterSets: the default one, and it with one of those fields at zero.
Bases ==
    {VGUPPIInputs_defaults} \cup
    {[VGUPPIInputs_defaults EXCEPT ![f] = Zero] : f \in DenominatorFields}

Restrict(fn, K) == [k \in K |-> fn[k]]

\* Keyword arguments given to VGUPPIInputs(...): all 15 names (the dashboard's
\* param_values), none (the tests' VGUPPIInputs()), all but one, or all and
\* one name outside the schema.
Kwargs ==
    {Restrict(b, FieldNames) : b \in Bases}
    \cup {Restrict(b, {}) : b \in Bases}
    \cup {Restrict(b, FieldNames \ {f}) : b \in Bases, f \in FieldNames}
    \cup {[k \in FieldNames \cup {BadName} |->
              IF k = BadName THEN One ELSE b[k]] : b \in Bases}

-----------------------------------------------------------------------------
(* The state machine: one caller making one call at a time.                *)

NoCall == [op |-> "none"]
NoRet == [op |-> "none", exc |-> "none", value |-> <<>>]

\* st.session_state with no key set: no dashboard script has run.
NoSession == <<>>

Init ==
    /\ inputs = VGUPPIInputs(<<>>).value
    /\ param_meta = PARAM_META
    /\ pc = "idle"
    /\ call = NoCall
    /\ ret = NoRet
    /\ session = NoSession

\* The caller is ready for its next call: it holds no pending result.
Ready == pc = "idle" /\ ret = NoRet

\* inputs = VGUPPIInputs(**kw)
Construct(kw) ==
    /\ Ready
    /\ LET made == VGUPPIInputs(kw) IN
       /\ ret' = [op |-> "VGUPPIInputs", exc |-> made.exc, value |-> made.value]
       /\ inputs' = IF Raised(made) THEN inputs ELSE made.value
       /\ call' = [op |-> "VGUPPIInputs", kw |-> kw]
    /\ UNCHANGED <<param_meta, pc, session>>

\* compute_intermediates(inputs)
CallIntermediates ==
    /\ Ready
    /\ LET r == compute_intermediates(inputs) IN
       ret' = [op |-> "compute_intermediates", exc |-> r.exc, value |-> r.value]
    /\ call' = [op |-> "compute_intermediates", inputs |-> inputs]
    /\ UNCHANGED <<inputs, param_meta, pc, session>>

\* compute_vguppis(inputs)
CallVguppis ==
    /\ Ready
    /\ LET r == compute_vguppis(inputs) IN
       ret' = [op |-> "compute_vguppis", exc |-> r.exc, value |-> r.value]
    /\ call' = [op |-> "compute_vguppis", inputs |-> inputs]
    /\ UNCHANGED <<inputs, param_meta, pc, session>>

\* compute_heatmap(inputs, x_param, y_param, vguppi_key, resolution) up to
\* the loops: the two metadata lookups, the axes, the empty grid, base_dict.
HeatmapCall(x_param, y_param, vguppi_key, resolution) ==
    /\ Ready
    /\ LET x_meta == axis_meta(param_meta, x_param)
           y_meta == axis_meta(param_meta, y_param)
           args == [op |-> "compute_heatmap", inputs |-> inputs,
                    x_param |-> x_param, y_param |-> y_param,
                    vguppi_key |-> vguppi_key, resolution |-> resolution]
       IN  IF Raised(x_meta) \/ Raised(y_meta)
           THEN /\ ret' = [op |-> "compute_heatmap", exc |-> "KeyError",
                           value |-> <<>>]
                /\ call' = args
                /\ pc' = pc
           ELSE /\ call' = args @@
                    [x_vals |-> linspace(x_meta.value.min, x_meta.value.max,
                                         resolution),
                     y_vals |-> linspace(y_meta.value.min, y_meta.value.max,
                                         resolution),
                     z_grid |-> empty(resolution, resolution),
                     base_dict |-> base_dict_of(inputs),
                     params |-> <<>>,
                     i |-> 0, j |-> 0]
                /\ pc' = "heatmap"
                /\ ret' = ret
    /\ UNCHANGED <<inputs, param_meta, session>>

\* One pass of the inner loop body, for cell (call.i, call.j).  An exception
\* leaves compute_heatmap with i, j and params as they are at that cell.
HeatmapCell ==
    /\ pc = "heatmap"
    /\ call.i < call.resolution
    /\ LET x_val == call.x_vals[call.j]
           y_val == call.y_vals[call.i]
           params == cell_params(call.base_dict, call.x_param, call.y_param,
                                 x_val, y_val)
           r == cell_result(call.base_dict, call.x_param, call.y_param,
                            call.vguppi_key, x_val, y_val)
           last == call.j = call.resolution - 1
       IN  IF Raised(r)
           THEN /\ ret' = [op |-> "compute_heatmap", exc |-> r.exc, value |-> <<>>]
                /\ pc' = "idle"
                /\ call' = [call EXCEPT !.params = params]
           ELSE /\ call' = [call EXCEPT !.z_grid[call.i][call.j] = r.value,
                                        !.params = params,
                                        !.i = IF last THEN call.i + 1 ELSE call.i,
                                        !.j = IF last THEN 0 ELSE call.j + 1]
                /\ UNCHANGED <<pc, ret>>
    /\ UNCHANGED <<inputs, param_meta, session>>

\* return x_vals, y_vals, z_grid
HeatmapReturn ==
    /\ pc = "heatmap"
    /\ call.i = call.resolution
    /\ ret' = [op |-> "compute_heatmap", exc |-> "none",
               value |-> <<call.x_vals, call.y_vals, call.z_grid>>]
    /\ pc' = "idle"
    /\ UNCHANGED <<inputs, param_meta, call, session>>

\* The caller is done with the result of its last call.
DropResult ==
    /\ pc = "idle"
    /\ ret # NoRet
    /\ ret' = NoRet
    /\ call' = NoCall
    /\ UNCHANGED <<inputs, param_meta, pc, session>>

\* The caller's choice of arguments.  (Ready is also each call's own guard; it
\* is repeated in front so that the arguments are enumerated only then.)
MakeInputs == Ready /\ \E kw \in Kwargs : Construct(kw)

MakeHeatmap ==
    /\ Ready
    /\ \E x_param \in AxisNames, y_param \in AxisNames,
          vguppi_key \in Metrics, resolution \in Resolutions :
          HeatmapCall(x_param, y_param, vguppi_key, resolution)

Next ==
    \/ MakeInputs
    \/ CallIntermediates
    \/ CallVguppis
    \/ MakeHeatmap
    \/ HeatmapCell
    \/ HeatmapReturn
    \/ DropResult

Spec == Init /\ [][Next]_vars

-----------------------------------------------------------------------------
(* The formula engine on the ParameterSets the dashboard's sidebar can     *)
(* build: every field within its metadata [min, max].                      *)

MaxOverrides == 2

\* The two ends of a field's slider.
Extremes(f) == {PARAM_META[f].min, PARAM_META[f].max}

\* The sidebar's param_values with at most MaxOverrides sliders moved from
\* their defaults, each to one end of its range.
ParameterSets ==
    LET Moved == {S \in SUBSET FieldNames : Cardinality(S) <= MaxOverrides}
        Values == UNION {Extremes(f) : f \in FieldNames}
        Settings(S) == {o \in [S -> Values] : \A f \in S : o[f] \in Extremes(f)}
    IN  {[f \in FieldNames |->
            IF f \in DOMAIN o THEN o[f] ELSE PARAM_META[f].default] :
         o \in UNION {Settings(S) : S \in Moved}}

EngineInit ==
    /\ inputs \in ParameterSets
    /\ param_meta = PARAM_META
    /\ pc = "idle"
    /\ call = NoCall
    /\ ret = NoRet
    /\ session = NoSession

EngineNext ==
    \/ CallIntermediates
    \/ CallVguppis
    \/ DropResult

EngineSpec == EngineInit /\ [][EngineNext]_vars

-----------------------------------------------------------------------------
(* The dashboard's sidebar ("02 scripts/dashboard.py"): two widgets per     *)
(* parameter, a slider and a number box, kept equal through                *)
(* st.session_state by their on_change callbacks.  A widget event writes   *)
(* the widget's own key, runs its callback, and reruns the script, which   *)
(* rebuilds the ParameterSet from the slider keys.                         *)

GROUP_ORDER ==
    <<"Prices", "Margins", "Diversion Ratios", "Pass-through", "Elasticity">>

\* The st.session_state key f"{p}_slider" or f"{p}_number".
Key(p, widget) == <<p, widget>>

\* The parameters the sidebar loop visits: those of a group in GROUP_ORDER.
SidebarParams(meta) ==
    {p \in Range(PARAM_NAMES) : meta[p].group \in Range(GROUP_ORDER)}

\* A variant that resets both keys to the "min" of the metadata entry.
reset_defaults_to_min(state, meta) ==
    LET names == Range(PARAM_NAMES)
        keys == DOMAIN state \cup
                {Key(p, w) : p \in names, w \in {"slider", "number"}}
    IN  [k \in keys |-> IF k[1] \in names THEN meta[k[1]].min ELSE state[k]]

\* _reset_defaults(): both keys of every name of PARAM_NAMES are set to the
\* "default" of its metadata entry.
reset_defaults(state, meta) ==
    LET names == Range(PARAM_NAMES)
        keys == DOMAIN state \cup
                {Key(p, w) : p \in names, w \in {"slider", "number"}}
    IN  [k \in keys |-> IF k[1] \in names THEN meta[k[1]].default ELSE state[k]]

\* A variant of the callback that copies nothing.
sync_slider_skip(state, param) == state

\* _sync_slider(param): the number box's value is copied to the slider's key.
sync_slider(state, param) ==
    [k \in DOMAIN state \cup {Key(param, "slider")} |->
        IF k = Key(param, "slider") THEN state[Key(param, "number")]
        ELSE state[k]]

\* _sync_number(param): the slider's value is copied to the number box's key.
sync_number(state, param) ==
    [k \in DOMAIN state \cup {Key(param, "number")} |->
        IF k = Key(param, "number") THEN state[Key(param, "slider")]
        ELSE state[k]]

\* The sidebar loop's "initialise session state on first run": a key that is
\* not in st.session_state yet is set to the metadata default.
init_session(state, meta) ==
    LET keys == {Key(p, w) : p \in SidebarParams(meta),
                             w \in {"slider", "number"}}
    IN  [k \in DOMAIN state \cup keys |->
            IF k \in DOMAIN state THEN state[k] ELSE meta[k[1]].default]

\* param_values[p] = st.session_state[f"{p}_slider"], for the loop's p.
param_values(state, meta) ==
    [p \in SidebarParams(meta) |-> state[Key(p, "slider")]]

\* A run of the script down to the ParameterSet: the state it leaves in
\* st.session_state and the outcome of VGUPPIInputs(**param_values).
RunScript(state, meta) ==
    LET after == init_session(state, meta)
    IN  [session |-> after,
         made |-> VGUPPIInputs(param_values(after, meta))]

\* The values a user sets a widget of parameter p to: the ends of its
\* [min_value, max_value], one step above the lower end, and the default.
WidgetValues(p) ==
    {PARAM_META[p].min, PARAM_META[p].max, PARAM_META[p].default,
     RAdd(PARAM_META[p].min, PARAM_META[p].step)}

\* How many parameters a session has away from their defaults at one time.
MaxMoved == 1

\* The parameters whose slider is away from the default.
Moved(state) ==
    {p \in Range(PARAM_NAMES) : state[Key(p, "slider")] # PARAM_META[p].default}

\* The first run of the script, on an empty st.session_state.
DashInit ==
    LET run == RunScript(NoSession, PARAM_META)
    IN  /\ session = run.session
        /\ inputs = run.made.value
        /\ param_meta = PARAM_META
        /\ pc = "idle"
        /\ call = NoCall
        /\ ret = NoRet

\* The script reruns after an event's callback has left st.session_state as
\* state.
Rerun(state) ==
    LET run == RunScript(state, param_meta)
    IN  /\ session' = run.session
        /\ inputs' = IF Raised(run.made) THEN inputs ELSE run.made.value
        /\ UNCHANGED <<param_meta, pc, ret>>

\* The user moves the slider of p to v: the widget's key is written,
\* _sync_number(p) runs, the script reruns.
SliderChange(p, v) ==
    /\ v # session[Key(p, "slider")]
    /\ LET written == [session EXCEPT ![Key(p, "slider")] = v]
           synced == sync_number(written, p)
       IN  /\ Cardinality(Moved(synced)) <= MaxMoved
           /\ Rerun(synced)
    /\ call' = [op |-> "_sync_number", param |-> p]

\* The user sets the number box of p to v: the widget's key is written,
\* _sync_slider(p) runs, the script reruns.
NumberChange(p, v) ==
    /\ v # session[Key(p, "number")]
    /\ LET written == [session EXCEPT ![Key(p, "number")] = v]
           synced == sync_slider(written, p)
       IN  /\ Cardinality(Moved(synced)) <= MaxMoved
           /\ Rerun(synced)
    /\ call' = [op |-> "_sync_slider", param |-> p]

\* The user clicks "Reset to defaults": _reset_defaults() runs, the script
\* reruns.
ResetClick ==
    /\ Rerun(reset_defaults(session, param_meta))
    /\ call' = [op |-> "_reset_defaults"]

MoveSlider ==
    \E p \in Range(PARAM_NAMES) : \E v \in WidgetValues(p) : SliderChange(p, v)

SetNumber ==
    \E p \in Range(PARAM_NAMES) : \E v \in WidgetValues(p) : NumberChange(p, v)

DashNext ==
    \/ MoveSlider
    \/ SetNumber
    \/ ResetClick

DashSpec == DashInit /\ [][DashNext]_vars

-----------------------------------------------------------------------------
(* Properties.                                                             *)

IsHeatmapFrame == call.op = "compute_heatmap"
HeatmapDone == ret.op = "compute_heatmap"
ValidAxes == call.x_param \in FieldNames /\ call.y_param \in FieldNames

\* The ParameterSet of grid point (i, j): the base with x_param at x_vals[j]
\* and y_param at y_vals[i].
PointParams(base, x_param, y_param, x_val, y_val) ==
    [f \in FieldNames |->
        IF f = y_param THEN y_val ELSE IF f = x_param THEN x_val ELSE base[f]]

\* compute_vguppis at grid point (i, j) of the call in the frame.
AtPoint(i, j) ==
    compute_vguppis(PointParams(call.inputs, call.x_param, call.y_param,
                                call.x_vals[j], call.y_vals[i]))

Indices == 0 .. call.resolution - 1

\* A marker for a non-finite float (inf or nan).
NonFinite == "non-finite"

\* C1: compute_intermediates and compute_vguppis called on a ParameterSet in
\* which p_R, w_R, p_D or m_U is 0 return normally (with a non-finite value in
\* the outputs that depend on the zero field); no error aborts the call.
C1_DegeneracyIsAValue ==
    (/\ ret.op \in {"compute_intermediates", "compute_vguppis"}
     /\ \E f \in {"p_R", "w_R", "p_D", "m_U"} : IsZero(call.inputs[f]))
    => ret.exc = "none"

\* C2: a compute_heatmap call on two distinct schema fields returns a full
\* grid even when the formula hits a zero denominator at some grid point:
\* that cell holds a non-finite marker and every other cell holds the value
\* compute_vguppis gives at its own grid point.
C2_BadCellIsData ==
    (HeatmapDone /\ ValidAxes /\ call.x_param # call.y_param)
    => /\ ret.exc = "none"
       /\ \A i \in Indices, j \in Indices :
             ret.value[3][i][j] =
                IF Raised(AtPoint(i, j)) THEN NonFinite
                ELSE AtPoint(i, j).value[call.vguppi_key]

\* C3: for every compute_heatmap call with x_field # y_field and all i, j in
\* 0..R-1, grid[i][j] equals compute_vguppis(P)[metric], P being the base with
\* x_field = x_vals[j] and y_field = y_vals[i].
C3_CellEqualsFormula ==
    (HeatmapDone /\ ValidAxes /\ call.x_param # call.y_param)
    => \A i \in Indices, j \in Indices :
          ~Raised(AtPoint(i, j))
          => /\ ret.exc = "none"
             /\ ret.value[3][i][j] = AtPoint(i, j).value[call.vguppi_key]

\* The number of entries of a 0-indexed array.
Size(a) == Cardinality(DOMAIN a)

\* C4: for any base, any two schema fields, any metric and any R >= 2,
\* compute_heatmap returns x_vals and y_vals of length R and a grid of R rows
\* of R columns.
C4_GridShape ==
    (HeatmapDone /\ ValidAxes)
    => /\ ret.exc = "none"
       /\ Size(ret.value[1]) = call.resolution
       /\ Size(ret.value[2]) = call.resolution
       /\ Size(ret.value[3]) = call.resolution
       /\ \A i \in DOMAIN ret.value[3] : Size(ret.value[3][i]) = call.resolution

\* C5: for two distinct fields whose base values coincide with grid
\* coordinates x_vals[ix] and y_vals[iy], the cell grid[iy][ix] equals
\* compute_vguppis(base)[metric].
C5_GridConsistency ==
    (HeatmapDone /\ ValidAxes /\ call.x_param # call.y_param)
    => \A iy \in Indices, ix \in Indices :
          (/\ call.x_vals[ix] = call.inputs[call.x_param]
           /\ call.y_vals[iy] = call.inputs[call.y_param]
           /\ ~Raised(compute_vguppis(call.inputs)))
          => /\ ret.exc = "none"
             /\ ret.value[3][iy][ix] =
                   compute_vguppis(call.inputs).value[call.vguppi_key]

\* What does hold of the grid: each cell written so far holds the value of
\* compute_vguppis at its grid point, the call returns only with every cell
\* written, and it raises only at a cell whose grid point raises.
GridSoFar ==
    (IsHeatmapFrame /\ ValidAxes)
    => /\ \A i \in Indices, j \in Indices :
             IF i < call.i \/ (i = call.i /\ j < call.j)
             THEN /\ ~Raised(AtPoint(i, j))
                  /\ call.z_grid[i][j] = AtPoint(i, j).value[call.vguppi_key]
             ELSE call.z_grid[i][j] = Uninit
       /\ (HeatmapDone /\ ret.exc = "none")
          => call.i = call.resolution /\ ret.value[3] = call.z_grid
       /\ (HeatmapDone /\ ret.exc # "none")
          => call.i < call.resolution /\ AtPoint(call.i, call.j).exc = ret.exc

\* C6: the keys of PARAM_META (and so PARAM_NAMES) are exactly the 15 field
\* names of VGUPPIInputs, and every metadata entry has a non-empty group.
C6_SchemaCorrespondence ==
    /\ DOMAIN param_meta = FieldNames
    /\ Range(PARAM_NAMES) = DOMAIN param_meta
    /\ Len(PARAM_NAMES) = Cardinality(DOMAIN param_meta)
    /\ Len(get_param_fields) = 15
    /\ Cardinality(FieldNames) = 15
    /\ \A n \in DOMAIN param_meta : param_meta[n].group # ""

\* A ParameterSet has been built from one value per name of PARAM_NAMES, as
\* the dashboard builds it.
C6_Witness ==
    /\ ret.op = "VGUPPIInputs"
    /\ ret.exc = "none"
    /\ DOMAIN call.kw = Range(PARAM_NAMES)
    /\ DOMAIN ret.value = DOMAIN param_meta

\* C7 as stated: constructing a ParameterSet fails both when a name outside
\* the schema is supplied and when any of the 15 fields is omitted.
C7_SchemaMismatch ==
    (ret.op = "VGUPPIInputs" /\ DOMAIN call.kw # FieldNames)
    => ret.exc # "none"

\* C7 as amended: constructing a ParameterSet fails (TypeError) exactly when a
\* name outside the 15 schema names is supplied; an omitted field does not
\* fail, the ParameterSet is built with that field at its default.
C7_Construction ==
    ret.op = "VGUPPIInputs"
    => /\ ret.exc \in {"none", "TypeError"}
       /\ ret.exc = "TypeError" <=> ~(DOMAIN call.kw \subseteq FieldNames)
       /\ ret.exc = "none"
          => /\ inputs = ret.value
             /\ DOMAIN inputs = FieldNames
             /\ \A f \in FieldNames :
                   inputs[f] = IF f \in DOMAIN call.kw
                               THEN call.kw[f]
                               ELSE VGUPPIInputs_defaults[f]

\* A ParameterSet has been built although a field was omitted, and the field
\* given differs from its default.
C7_Witness ==
    /\ ret.op = "VGUPPIInputs"
    /\ ret.exc = "none"
    /\ DOMAIN call.kw # FieldNames
    /\ \E f \in DOMAIN call.kw : call.kw[f] # VGUPPIInputs_defaults[f]

\* C8 as stated: compute_heatmap fails and returns no grid when x_field
\* equals y_field or when either is no name of the schema.
C8_InvalidAxisSelection ==
    (HeatmapDone /\ (call.x_param = call.y_param \/ ~ValidAxes))
    => ret.exc # "none"

\* C8 as amended: compute_heatmap fails with KeyError exactly when x_field or
\* y_field is no name of the schema; it then returns no grid, has evaluated no
\* cell, and leaves the base ParameterSet and the metadata as they were.
\* x_field = y_field (a schema name) is no error: the call runs as a sweep in
\* which the field takes y_vals[i] in every cell of row i.
C8_AxisErrors ==
    IsHeatmapFrame
    => /\ ~ValidAxes <=> (HeatmapDone /\ ret.exc = "KeyError")
       /\ ~ValidAxes
          => /\ ret.value = <<>>
             /\ "z_grid" \notin DOMAIN call
             /\ inputs = call.inputs
             /\ param_meta = PARAM_META
       /\ (ValidAxes /\ HeatmapDone /\ call.x_param = call.y_param)
          => /\ ret.exc \in {"none", "ZeroDivisionError"}
             /\ ret.exc = "none"
                => \A i \in Indices, j \in Indices :
                      ret.value[3][i][j] =
                         compute_vguppis(
                            [call.inputs EXCEPT ![call.y_param] = call.y_vals[i]]
                         ).value[call.vguppi_key]

\* A call with x_field = y_field has returned a grid.
C8_Witness ==
    /\ HeatmapDone
    /\ ValidAxes
    /\ call.x_param = call.y_param
    /\ ret.exc = "none"
    /\ ret.value[3][0][0] # ret.value[3][1][0]

\* The indices of the cell the loop body ran for last.
LastCell ==
    IF HeatmapDone /\ ret.exc # "none" THEN <<call.i, call.j>>
    ELSE IF call.j > 0 THEN <<call.i, call.j - 1>>
    ELSE <<call.i - 1, call.resolution - 1>>

\* C9: a sweep never mutates its base.  While compute_heatmap runs and after
\* it returns or fails, the base ParameterSet (and the base_dict copied from
\* it) has the 15 values it had when the call began, and each cell is
\* evaluated on a ParameterSet that has x_field at x_vals[j], y_field at
\* y_vals[i] and the base's value in every other field.
C9_BaseNeverMutated ==
    IsHeatmapFrame
    => /\ inputs = call.inputs
       /\ ValidAxes
          => /\ call.base_dict = call.inputs
             /\ call.params # <<>>
                => LET P == VGUPPIInputs(call.params)
                       i == LastCell[1]
                       j == LastCell[2]
                   IN  /\ ~Raised(P)
                       /\ \A f \in FieldNames \ {call.x_param, call.y_param} :
                             P.value[f] = call.inputs[f]
                       /\ P.value[call.y_param] = call.y_vals[i]
                       /\ call.x_param # call.y_param
                          => P.value[call.x_param] = call.x_vals[j]

\* A sweep over two distinct fields of a base that is not the default one has
\* returned its grid.
C9_Witness ==
    /\ HeatmapDone
    /\ ret.exc = "none"
    /\ call.x_param # call.y_param
    /\ call.inputs # VGUPPIInputs_defaults
    /\ inputs = call.inputs

-----------------------------------------------------------------------------
(* The formula engine on given ParameterSets.                              *)

DefaultInputs == VGUPPIInputs(<<>>).value

\* C11: on the default ParameterSet VGUPPIInputs(), compute_intermediates
\* returns e_p = 0.25 and e_sd = e_sr = 1.75, and compute_vguppis returns
\* vGUPPI_U = 0.4/4.5, vGUPPI_D1 = 0.0625, vGUPPI_D2 = -0.1875,
\* vGUPPI_D3 = -0.40625 and
\* vGUPPI_R = vGUPPI_U * 0.5 * (10/20) * (1 - vGUPPI_U * 0.5 * 1.75) with the
\* vGUPPI_U it returns; neither call raises, so all values are finite.
C11_DefaultValues ==
    /\ (ret.op = "compute_intermediates" /\ call.inputs = DefaultInputs)
       => /\ ret.exc = "none"
          /\ ret.value.e_p = Q(25, 100)
          /\ ret.value.e_sd = Q(175, 100)
          /\ ret.value.e_sr = Q(175, 100)
    /\ (ret.op = "compute_vguppis" /\ call.inputs = DefaultInputs)
       => /\ ret.exc = "none"
          /\ DOMAIN ret.value = Range(VGUPPI_NAMES)
          /\ ret.value.vGUPPI_U = RDiv(Q(4, 10), Q(45, 10))
          /\ ret.value.vGUPPI_D1 = Q(625, 10000)
          /\ ret.value.vGUPPI_D2 = Q(-1875, 10000)
          /\ ret.value.vGUPPI_D3 = Q(-40625, 100000)
          /\ ret.value.vGUPPI_R =
                LET u == ret.value.vGUPPI_U
                IN  RMul(RMul(RMul(u, Q(5, 10)), Q(10, 20)),
                         RSub(One, RMul(RMul(u, Q(5, 10)), Q(175, 100))))

\* compute_vguppis has returned its five metrics for VGUPPIInputs().
C11_Witness ==
    /\ ret.op = "compute_vguppis"
    /\ call.inputs = DefaultInputs
    /\ call.inputs = VGUPPIInputs_defaults
    /\ ret.exc = "none"

\* No division of the formulas has a zero denominator on ParameterSet in.
NonZeroDenominators(in) ==
    /\ ~IsZero(in.p_R)
    /\ ~IsZero(in.m_U)
    /\ ~IsZero(in.w_R)
    /\ ~IsZero(in.p_D)
    /\ ~IsZero(in.ptr_R)
    /\ LET e_p == RDiv(RMul(in.ptr_R, in.w_R), in.p_R)
           e_sr == RSub(RDiv(One, in.m_U), RMul(in.e, e_p))
       IN  ~IsZero(RAdd(One, RDiv(RMul(in.m_R, e_sr), e_p)))

\* The term D2 subtracts from D1: m_UD * w_D / p_D.
D2Term(in) == RDiv(RMul(in.m_UD, in.w_D), in.p_D)

\* The term D3 subtracts from D2: e_sd * m_UD^2 * w_D / p_D.
D3Term(in, e_sd) ==
    RDiv(RMul(RMul(e_sd, RMul(in.m_UD, in.m_UD)), in.w_D), in.p_D)

\* C12: on every ParameterSet with non-zero denominators compute_vguppis
\* returns the five metrics of one chain on that ParameterSet:
\* e_p = ptr_R*w_R/p_R and e_sd = e_sr = 1/m_U - e*e_p, as
\* compute_intermediates returns them;
\* vGUPPI_U = (dr_RD*m_D*p_D/w_R) / (1 + m_R*e_sr/e_p); vGUPPI_R built from
\* the returned vGUPPI_U; vGUPPI_D1 = dr_DU*m_U*w_U/p_D;
\* vGUPPI_D2 = vGUPPI_D1 - m_UD*w_D/p_D;
\* vGUPPI_D3 = vGUPPI_D2 - e_sd*m_UD^2*w_D/p_D; so the returned D1 - D2 and
\* D2 - D3 are those two subtracted terms.
C12_OneChain ==
    (ret.op = "compute_vguppis" /\ NonZeroDenominators(call.inputs))
    => LET in == call.inputs
           inter == compute_intermediates(in)
           e_p == RDiv(RMul(in.ptr_R, in.w_R), in.p_R)
           e_sd == RSub(RDiv(One, in.m_U), RMul(in.e, e_p))
           v == ret.value
       IN  /\ ret.exc = "none"
           /\ inter = Return([e_p |-> e_p, e_sd |-> e_sd, e_sr |-> e_sd])
           /\ DOMAIN v = Range(VGUPPI_NAMES)
           /\ v.vGUPPI_U =
                 RDiv(RDiv(RMul(RMul(in.dr_RD, in.m_D), in.p_D), in.w_R),
                      RAdd(One, RDiv(RMul(in.m_R, e_sd), e_p)))
           /\ v.vGUPPI_R =
                 RMul(RDiv(RMul(RMul(v.vGUPPI_U, in.ptr_U), in.w_R), in.p_R),
                      RSub(One, RMul(RMul(v.vGUPPI_U, in.ptr_U), e_sd)))
           /\ v.vGUPPI_D1 = RDiv(RMul(RMul(in.dr_DU, in.m_U), in.w_U), in.p_D)
           /\ v.vGUPPI_D2 = RSub(v.vGUPPI_D1, D2Term(in))
           /\ v.vGUPPI_D3 = RSub(v.vGUPPI_D2, D3Term(in, e_sd))
           /\ RSub(v.vGUPPI_D1, v.vGUPPI_D2) = D2Term(in)
           /\ RSub(v.vGUPPI_D2, v.vGUPPI_D3) = D3Term(in, e_sd)

\* compute_vguppis has returned for a ParameterSet other than the default,
\* with both subtracted terms non-zero and different from each other.
C12_Witness ==
    /\ ret.op = "compute_vguppis"
    /\ ret.exc = "none"
    /\ NonZeroDenominators(call.inputs)
    /\ call.inputs # VGUPPIInputs_defaults
    /\ ~IsZero(RSub(ret.value.vGUPPI_D1, ret.value.vGUPPI_D2))
    /\ ~IsZero(RSub(ret.value.vGUPPI_D2, ret.value.vGUPPI_D3))
    /\ RSub(ret.value.vGUPPI_D1, ret.value.vGUPPI_D2)
          # RSub(ret.value.vGUPPI_D2, ret.value.vGUPPI_D3)

\* a <= b on rationals with positive denominators.
RLeq(a, b) == a[1] * b[2] <= b[1] * a[2]

\* Every field of ParameterSet in lies within the [min, max] of its metadata.
WithinBounds(in) ==
    \A f \in FieldNames :
        RLeq(param_meta[f].min, in[f]) /\ RLeq(in[f], param_meta[f].max)

\* 1/m_U - e * ptr_R * w_R / p_R, the e_sd of ParameterSet in.
SupplyElasticity(in) ==
    RSub(RDiv(One, in.m_U), RMul(in.e, RDiv(RMul(in.ptr_R, in.w_R), in.p_R)))

\* C13 as stated: for every ParameterSet within the metadata bounds and with
\* non-zero denominators, the downstream metrics compute_vguppis returns are
\* monotonically decreasing: vGUPPI_D1 >= vGUPPI_D2 >= vGUPPI_D3.
C13_Monotone ==
    (/\ ret.op = "compute_vguppis"
     /\ WithinBounds(call.inputs)
     /\ NonZeroDenominators(call.inputs))
    => /\ ret.exc = "none"
       /\ RLeq(ret.value.vGUPPI_D2, ret.value.vGUPPI_D1)
       /\ RLeq(ret.value.vGUPPI_D3, ret.value.vGUPPI_D2)

\* C13 as amended: for every ParameterSet within the metadata bounds and with
\* non-zero denominators, vGUPPI_D1 >= vGUPPI_D2; and vGUPPI_D2 >= vGUPPI_D3
\* exactly when m_UD = 0 or e_sd = 1/m_U - e*ptr_R*w_R/p_R is not negative.
\* Within the bounds e_sd can be negative, and then vGUPPI_D3 > vGUPPI_D2.
C13_MonotoneWhen ==
    (/\ ret.op = "compute_vguppis"
     /\ WithinBounds(call.inputs)
     /\ NonZeroDenominators(call.inputs))
    => /\ ret.exc = "none"
       /\ RLeq(ret.value.vGUPPI_D2, ret.value.vGUPPI_D1)
       /\ RLeq(ret.value.vGUPPI_D3, ret.value.vGUPPI_D2)
          <=> (\/ IsZero(call.inputs.m_UD)
               \/ RLeq(Zero, SupplyElasticity(call.inputs)))

\* compute_vguppis has returned for a ParameterSet within the bounds whose
\* e_sd is negative, with vGUPPI_D3 above vGUPPI_D2.
C13_Witness ==
    /\ ret.op = "compute_vguppis"
    /\ ret.exc = "none"
    /\ WithinBounds(call.inputs)
    /\ NonZeroDenominators(call.inputs)
    /\ ~RLeq(Zero, SupplyElasticity(call.inputs))
    /\ ~RLeq(ret.value.vGUPPI_D3, ret.value.vGUPPI_D2)
    /\ RLeq(ret.value.vGUPPI_D2, ret.value.vGUPPI_D1)

-----------------------------------------------------------------------------
(* The axes of a sweep.                                                    *)

\* a < b on rationals with positive denominators.
RLess(a, b) == a[1] * b[2] < b[1] * a[2]

\* vals is the evenly spaced axis of R points from the metadata min of field
\* to its metadata max.
IsAxisOf(vals, field, R) ==
    LET lo == param_meta[field].min
        hi == param_meta[field].max
        step == RDiv(RSub(hi, lo), Q(R - 1, 1))
    IN  /\ DOMAIN vals = 0 .. R - 1
        /\ vals[0] = lo
        /\ vals[R - 1] = hi
        /\ \A k \in 0 .. R - 1 : vals[k] = RAdd(lo, RMul(Q(k, 1), step))
        /\ \A k \in 0 .. R - 2 :
              /\ RSub(vals[k + 1], vals[k]) = step
              /\ RLess(vals[k], vals[k + 1])

\* C14: in every compute_heatmap call with resolution R >= 2 on two schema
\* fields, x_vals and y_vals are fixed by the metadata of x_field and y_field
\* alone, whatever the base ParameterSet: x_vals[0] is the metadata min,
\* x_vals[R-1] the metadata max, consecutive values differ by
\* (max - min)/(R - 1), so the sequence is strictly increasing; likewise
\* y_vals.  The axes the call returns are these.
C14_AxesFromMetadata ==
    (IsHeatmapFrame /\ ValidAxes)
    => /\ call.resolution >= 2
       /\ IsAxisOf(call.x_vals, call.x_param, call.resolution)
       /\ IsAxisOf(call.y_vals, call.y_param, call.resolution)
       /\ (HeatmapDone /\ ret.exc = "none")
          => /\ ret.value[1] = call.x_vals
             /\ ret.value[2] = call.y_vals

\* A sweep with an interior grid point, on a base other than the default one,
\* has returned its axes.
C14_Witness ==
    /\ HeatmapDone
    /\ ret.exc = "none"
    /\ call.resolution > 2
    /\ call.x_param # call.y_param
    /\ call.inputs # VGUPPIInputs_defaults
    /\ IsAxisOf(ret.value[1], call.x_param, call.resolution)

-----------------------------------------------------------------------------
(* The dashboard's session state.                                          *)

\* C15: from the first run on, after any sequence of slider changes,
\* number-box changes and "Reset to defaults" clicks, each followed by its
\* callback, when the ParameterSet is built the session value "<name>_slider"
\* equals the session value "<name>_number" for each of the 15 parameters,
\* that value lies within the parameter's metadata [min, max], and it is the
\* value of the field in the ParameterSet built.
C15_WidgetsInSync ==
    \A p \in Range(PARAM_NAMES) :
        /\ Key(p, "slider") \in DOMAIN session
        /\ Key(p, "number") \in DOMAIN session
        /\ session[Key(p, "slider")] = session[Key(p, "number")]
        /\ RLeq(param_meta[p].min, session[Key(p, "slider")])
        /\ RLeq(session[Key(p, "slider")], param_meta[p].max)
        /\ inputs[p] = session[Key(p, "slider")]

\* A number-box change has been handled: the slider of that parameter has
\* followed it away from the default, and so has the ParameterSet.
C15_Witness ==
    /\ call.op = "_sync_slider"
    /\ session[Key(call.param, "number")] # param_meta[call.param].default
    /\ session[Key(call.param, "slider")] = session[Key(call.param, "number")]
    /\ inputs[call.param] = session[Key(call.param, "number")]
    /\ inputs # VGUPPIInputs(<<>>).value

\* C16: once _reset_defaults has run, from whatever session state, the
\* ParameterSet the dashboard builds is the default ParameterSet
\* VGUPPIInputs(): for each of the 15 names the metadata "default" equals the
\* default of the VGUPPIInputs field of that name and lies within the entry's
\* [min, max].
C16_ResetGivesDefaults ==
    [][ResetClick
       => /\ inputs' = VGUPPIInputs(<<>>).value
          /\ \A p \in Range(PARAM_NAMES) :
                /\ session'[Key(p, "slider")] = param_meta[p].default
                /\ session'[Key(p, "number")] = param_meta[p].default
                /\ param_meta[p].default = VGUPPIInputs_defaults[p]
                /\ RLeq(param_meta[p].min, param_meta[p].default)
                /\ RLeq(param_meta[p].default, param_meta[p].max)]_vars

\* "Reset to defaults" has been clicked and the ParameterSet rebuilt.
C16_Witness ==
    /\ call.op = "_reset_defaults"
    /\ inputs = VGUPPIInputs(<<>>).value
    /\ Moved(session) = {}

=============================================================================
